---------------------------- MODULE Spec2Model ----------------------------
(***************************************************************************)
(* Tanchiki server simulation core: the SpatialHash utility                *)
(* (server/src/utils/SpatialHash.js) and the GameLoop tick loop            *)
(* (server/src/game/GameLoop.js).                                          *)
(***************************************************************************)
EXTENDS Integers, Sequences, FiniteSets, TLC

(***************************************************************************)
(* Bounds of the SpatialHash exploration.                                  *)
(***************************************************************************)
MaxCoord == 2
MaxRadius == 2

(***************************************************************************)
(* Bounds of the GameLoop exploration.                                     *)
(***************************************************************************)
\* how many times the wall clock is seen to advance
MaxAdvances == 3
\* how many calls the clients make (input, shoot, respawn)
MaxCalls == 3
\* how many bullets are created in one run
MaxBulletIds == 4
\* how many blocks and power-ups are created in one run
MaxEntityIds == 2

VARIABLES
    cellSize,      \* SpatialHash.cellSize
    cells,         \* SpatialHash.cells: key -> sequence of entities
    inserted,      \* the entities handed to insert since the last clear
    lastQuery,     \* the arguments and the result of the last query call
    now,           \* Date.now()
    advances,      \* how many times the clock has advanced
    calls,         \* how many calls the clients have made
    tickPhase,     \* where the tick callback stands, and what its movement phase read
    isRunning,     \* GameLoop.isRunning
    intervalId,    \* GameLoop.intervalId: TRUE when it holds a timer, FALSE when null
    activeTimers,  \* how many setInterval schedules are active
    lastTick,      \* GameLoop.lastTick
    arenaSize,     \* GameState.arenaSize
    players,       \* GameState.players: id -> player
    joined,        \* how many players have joined so far (ids are never reused)
    bullets,       \* GameState.bullets, in insertion order
    nextBulletId,  \* the id the next bullet gets
    blocks,        \* GameState.blocks, in insertion order
    powerUps,      \* GameState.powerUps, in insertion order
    nextEntityId,  \* the id the next block or power-up gets
    last,          \* the last tick: what it emitted and what its collision phases did
    ticks,         \* history: how many ticks have run
    shootLog,      \* history: the last playerShoot call and what it returned
    loopLog,       \* history: the last start() or stop() call and the loop around it
    respawnLog,    \* history: the last respawnPlayer call and what it returned
    bulletHits,    \* history: bullet id -> how many hp reductions it has made
    deathsInLife,  \* history: player id -> deaths emitted and counted, kills credited since the respawn
    tripleSince    \* history: player id -> time of the triple-shot pickup in effect

hashVars == <<cellSize, cells, inserted, lastQuery>>

loopVars == <<isRunning, intervalId, activeTimers, lastTick>>

worldVars == <<arenaSize, players, joined, bullets, nextBulletId, blocks, powerUps,
               nextEntityId>>

historyVars == <<last, ticks, shootLog, bulletHits, deathsInLife, tripleSince>>

envVars == <<advances, calls, tickPhase, loopLog, respawnLog>>

gameVars == <<now, envVars, loopVars, worldVars, historyVars>>

vars == <<hashVars, gameVars>>

(***************************************************************************)
(* Arithmetic of the JavaScript source on integers.                        *)
(***************************************************************************)
\* Math.floor(a / b), b > 0
FloorDiv(a, b) == a \div b

\* Math.ceil(a / b), a >= 0, b > 0
CeilDiv(a, b) == (a + b - 1) \div b

\* the least s with s * s >= n: Math.sqrt(n) <= r  iff  CeilSqrt(n) <= r
CeilSqrt(n) == CHOOSE s \in 0..n : s * s >= n /\ (s = 0 \/ (s - 1) * (s - 1) < n)

Coords == (0 - MaxCoord)..MaxCoord
\* the z loop of query is the x loop again: a narrower range on the z axis
ZCoords == {0 - 1, 0, 1}
EntityIds == <<"a", "b">>
\* SpatialHash is constructed with cellSize = 100 by default; any size > 0 is allowed
CellSizes == {1, 2, 3}
NoQuery == [x |-> 0, z |-> 0, radius |-> 0, results |-> <<>>, done |-> FALSE]

(***************************************************************************)
(* SpatialHash                                                             *)
(***************************************************************************)
GetKeyFloored(cs, x, z) == <<FloorDiv(x, cs), FloorDiv(z, cs)>>

\* a plausible slip: truncation toward zero instead of Math.floor
GetKeyTruncated(cs, x, z) ==
    <<IF x >= 0 THEN x \div cs ELSE 0 - ((0 - x) \div cs),
      IF z >= 0 THEN z \div cs ELSE 0 - ((0 - z) \div cs)>>

GetKey(cs, x, z) == GetKeyFloored(cs, x, z)

InsertInto(cs, cmap, entity) ==
    LET key == GetKey(cs, entity.x, entity.z)
        withKey == IF key \in DOMAIN cmap THEN cmap ELSE cmap @@ (key :> <<>>)
    IN  [withKey EXCEPT ![key] = Append(@, entity)]

\* the (dx, dz) pairs of the two nested loops of query, in loop order
CellOffsets(cellRadius) ==
    LET w == 2 * cellRadius + 1
    IN  [i \in 1..(w * w) |->
            <<((i - 1) \div w) - cellRadius, ((i - 1) % w) - cellRadius>>]

\* the inner loop over one cell: the exact distance test
FilterCell(cell, x, z, radius) ==
    SelectSeq(cell, LAMBDA e :
        CeilSqrt((e.x - x) * (e.x - x) + (e.z - z) * (e.z - z)) <= radius)

RECURSIVE QueryCells(_, _, _, _, _, _, _)
QueryCells(cs, cmap, offs, i, x, z, radius) ==
    IF i > Len(offs) THEN <<>>
    ELSE LET key == <<FloorDiv(x, cs) + offs[i][1], FloorDiv(z, cs) + offs[i][2]>>
             here == IF key \in DOMAIN cmap
                        THEN FilterCell(cmap[key], x, z, radius)
                        ELSE <<>>
         IN  here \o QueryCells(cs, cmap, offs, i + 1, x, z, radius)

Query(cs, cmap, x, z, radius) ==
    QueryCells(cs, cmap, CellOffsets(CeilDiv(radius, cs)), 1, x, z, radius)

RECURSIVE RebuildFrom(_, _, _)
RebuildFrom(cs, cmap, entities) ==
    IF entities = <<>> THEN cmap
    ELSE RebuildFrom(cs, InsertInto(cs, cmap, Head(entities)), Tail(entities))

EmptyCells == [k \in {} |-> <<>>]

(***************************************************************************)
(* GameLoop: constants of the source.                                      *)
(***************************************************************************)
\* Date.now() when the GameLoop is constructed
StartTime == 1000
\* updatePlayers: halfArena = arenaSize / 2 - 30
ArenaMargin == 30
\* playerShoot: 200 ms between shots
FireInterval == 200
\* playerShoot: gunLength
GunLength == 35
\* applyPowerUp
TripleShotDuration == 10000
SpeedBoostDuration == 8000
HealAmount == 50
\* updatePowerUps: power-ups expire after 30 seconds
PowerUpLifetime == 30000
\* checkBulletPlayerCollisions: shooter.score += 100
KillScore == 100

(***************************************************************************)
(* GameState.config, the entity radii of Collision and the arena sizes:    *)
(* GameState.js and Collision.js are not among the source files, the       *)
(* values are chosen in line with the specification's scenarios.           *)
(***************************************************************************)
PlayerMaxHp == 100
PlayerSpeed == 200
BulletSpeed == 300
BulletDamage == 60
BulletLifetime == 300
RespawnInvulnerability == 200
PlayerRadius == 20
BulletRadius == 5
PowerUpRadius == 15
BlockRadius == 15
BlockHp == 50
InitialArenaSize == 300
ArenaSizes == {300, 160}

PlayerIds == {1, 2}
PowerUpTypes == {"tripleShot", "speed", "heal"}
\* the positions getRandomSpawnPosition draws from
SpawnPoints == {[x |-> 0 - 40, z |-> 0], [x |-> 40, z |-> 0]}
\* where updateSpawns puts a new power-up, a new block
PowerUpPoint == [x |-> 0 - 40, z |-> 0]
BlockPoint == [x |-> 0 - 110, z |-> 0]
\* the other positions at which updateSpawns is seen to put an entity
EntityPoints == {[x |-> 40, z |-> 0], [x |-> 40, z |-> 90]}
\* the steps in which the wall clock is seen to advance (ms)
Deltas == {100, 10000}
None == 0 - 1

\* a / b rounded toward zero
TruncDiv(a, b) == IF a >= 0 THEN a \div b ELSE 0 - ((0 - a) \div b)

Abs(a) == IF a >= 0 THEN a ELSE 0 - a

Min(a, b) == IF a <= b THEN a ELSE b

Max(a, b) == IF a >= b THEN a ELSE b

\* Math.sin and Math.cos, in thousandths, of an angle in degrees
NormDeg(a) == ((a % 360) + 360) % 360

SinK(a) ==
    CASE NormDeg(a) = 0 -> 0
      [] NormDeg(a) = 15 -> 259
      [] NormDeg(a) = 75 -> 966
      [] NormDeg(a) = 90 -> 1000
      [] NormDeg(a) = 105 -> 966
      [] NormDeg(a) = 165 -> 259
      [] NormDeg(a) = 180 -> 0
      [] NormDeg(a) = 195 -> 0 - 259
      [] NormDeg(a) = 255 -> 0 - 966
      [] NormDeg(a) = 270 -> 0 - 1000
      [] NormDeg(a) = 285 -> 0 - 966
      [] NormDeg(a) = 345 -> 0 - 259

CosK(a) == SinK(a + 90)

(***************************************************************************)
(* Player, and the input a client sends                                    *)
(***************************************************************************)
NoInput == [up |-> FALSE, down |-> FALSE, left |-> FALSE, right |-> FALSE, angle |-> 0]

Aim(angle) == [NoInput EXCEPT !.angle = angle]

\* driving south while aiming east
MoveDown == [NoInput EXCEPT !.down = TRUE, !.angle = 90]

\* aiming east, aiming west
AimChoices == {Aim(90), Aim(270)}

\* a player as the join handler creates it
NewPlayer(pos) ==
    [x |-> pos.x, z |-> pos.z, hp |-> PlayerMaxHp, isAlive |-> TRUE,
     score |-> 0, kills |-> 0, deaths |-> 0,
     hasTripleShot |-> FALSE, tripleShotUntil |-> 0,
     hasSpeedBoost |-> FALSE, speedBoostUntil |-> 0,
     invulnerableUntil |-> 0, lastShotTime |-> 0,
     turretAngle |-> 0, bodyAngle |-> 0, input |-> NoInput]

\* the elements of a sequence
Range(seq) == {seq[i] : i \in 1..Len(seq)}

\* a sequence without the elements whose id is in ids
RemoveIds(seq, ids) == SelectSeq(seq, LAMBDA e : e.id \notin ids)

\* GameState.getRandomSpawnPosition: a position within the arena minus the wall margin
SpawnPositions(arena) ==
    {pos \in SpawnPoints : Abs(pos.x) <= arena \div 2 - ArenaMargin
                           /\ Abs(pos.z) <= arena \div 2 - ArenaMargin}

(***************************************************************************)
(* Collision                                                               *)
(***************************************************************************)
DistSq(a, b) == (a.x - b.x) * (a.x - b.x) + (a.z - b.z) * (a.z - b.z)

BulletHitsPlayer(bullet, player) ==
    DistSq(bullet, player) <= (BulletRadius + PlayerRadius) * (BulletRadius + PlayerRadius)

BulletHitsBlock(bullet, block) ==
    DistSq(bullet, block) <= (BulletRadius + BlockRadius) * (BulletRadius + BlockRadius)

PlayerHitsPowerUp(player, powerUp) ==
    DistSq(player, powerUp) <= (PlayerRadius + PowerUpRadius) * (PlayerRadius + PowerUpRadius)

\* the minimal translation along the axis of least penetration, (0, 0) when
\* the player does not overlap the block
GetPlayerBlockPushback(player, block) ==
    LET ox == (PlayerRadius + BlockRadius) - Abs(player.x - block.x)
        oz == (PlayerRadius + BlockRadius) - Abs(player.z - block.z)
    IN  IF ox <= 0 \/ oz <= 0 THEN [x |-> 0, z |-> 0]
        ELSE IF ox < oz
             THEN [x |-> IF player.x >= block.x THEN ox ELSE 0 - ox, z |-> 0]
             ELSE [x |-> 0, z |-> IF player.z >= block.z THEN oz ELSE 0 - oz]

(***************************************************************************)
(* GameState.addBullet                                                     *)
(***************************************************************************)
NewBullet(id, ownerId, x, z, angle, t) ==
    [id |-> id, ownerId |-> ownerId, x |-> x, z |-> z,
     vx |-> TruncDiv(SinK(angle) * BulletSpeed, 1000),
     vz |-> 0 - TruncDiv(CosK(angle) * BulletSpeed, 1000),
     damage |-> BulletDamage, createdAt |-> t]

\* the bullets one shot creates: three at -15, 0 and +15 degrees, or one
AddBullet(firstId, ownerId, x, z, angle, isTriple, t) ==
    IF isTriple
    THEN << NewBullet(firstId, ownerId, x, z, angle - 15, t),
            NewBullet(firstId + 1, ownerId, x, z, angle, t),
            NewBullet(firstId + 2, ownerId, x, z, angle + 15, t) >>
    ELSE << NewBullet(firstId, ownerId, x, z, angle, t) >>

(***************************************************************************)
(* GameLoop.updatePlayers                                                  *)
(***************************************************************************)
\* Math.atan2(dx, -dz) in degrees, for dx, dz in {-1, 0, 1}, not both 0
Atan2Deg(dx, dz) ==
    CASE dx = 0 /\ dz < 0 -> 0
      [] dx > 0 /\ dz < 0 -> 45
      [] dx > 0 /\ dz = 0 -> 90
      [] dx > 0 /\ dz > 0 -> 135
      [] dx = 0 /\ dz > 0 -> 180
      [] dx < 0 /\ dz > 0 -> 0 - 135
      [] dx < 0 /\ dz = 0 -> 0 - 90
      [] dx < 0 /\ dz < 0 -> 0 - 45

\* a variant of BoostActive in which the boost still holds at speedBoostUntil
BoostActiveInclusive(player, t) == player.hasSpeedBoost /\ t <= player.speedBoostUntil

BoostActive(player, t) == player.hasSpeedBoost /\ t < player.speedBoostUntil

\* the distance covered along one axis in dtMs milliseconds: the unit vector's
\* component (1, or 1 / sqrt 2 on a diagonal) times speed times deltaTime
AxisStep(dir, diagonal, speed, dtMs) ==
    LET full == (speed * dtMs) \div 1000
    IN  dir * (IF diagonal THEN (full * 7071) \div 10000 ELSE full)

MovePlayer(player, dtMs, t, arena) ==
    LET halfArena == arena \div 2 - ArenaMargin
        speed == IF BoostActive(player, t) THEN (PlayerSpeed * 3) \div 2 ELSE PlayerSpeed
        dx == (IF player.input.right THEN 1 ELSE 0) - (IF player.input.left THEN 1 ELSE 0)
        dz == (IF player.input.down THEN 1 ELSE 0) - (IF player.input.up THEN 1 ELSE 0)
        diagonal == dx # 0 /\ dz # 0
        nx == player.x + AxisStep(dx, diagonal, speed, dtMs)
        nz == player.z + AxisStep(dz, diagonal, speed, dtMs)
    IN  [player EXCEPT
            !.hasSpeedBoost = BoostActive(player, t),
            !.x = Max(0 - halfArena, Min(halfArena, nx)),
            !.z = Max(0 - halfArena, Min(halfArena, nz)),
            !.turretAngle = player.input.angle,
            !.bodyAngle = IF dx # 0 \/ dz # 0 THEN Atan2Deg(dx, dz) ELSE @]

\* a variant that forgets the isAlive test
UpdatePlayersMovesDead(ps, dtMs, t, arena) ==
    [id \in DOMAIN ps |-> MovePlayer(ps[id], dtMs, t, arena)]

UpdatePlayers(ps, dtMs, t, arena) ==
    [id \in DOMAIN ps |->
        IF ps[id].isAlive THEN MovePlayer(ps[id], dtMs, t, arena) ELSE ps[id]]

(***************************************************************************)
(* GameLoop.updateBullets, updatePowerUps                                  *)
(***************************************************************************)
MoveBullet(bullet, dtMs) ==
    [bullet EXCEPT !.x = @ + TruncDiv(bullet.vx * dtMs, 1000),
                   !.z = @ + TruncDiv(bullet.vz * dtMs, 1000)]

\* a variant of BulletExpired for bullets that never get too old
BulletExpiredNever(b, t) == FALSE

BulletExpired(bullet, t) == t - bullet.createdAt > BulletLifetime

BulletOutOfArena(bullet, arena) ==
    Abs(bullet.x) > arena \div 2 \/ Abs(bullet.z) > arena \div 2

UpdateBullets(bs, dtMs, t, arena) ==
    LET moved == [i \in 1..Len(bs) |-> MoveBullet(bs[i], dtMs)]
    IN  SelectSeq(moved, LAMBDA b : ~BulletExpired(b, t) /\ ~BulletOutOfArena(b, arena))

\* a variant of UpdatePowerUps that already removes at an age of exactly 30 s
UpdatePowerUpsInclusive(pus, t) ==
    SelectSeq(pus, LAMBDA pu : ~(t - pu.createdAt >= PowerUpLifetime))

UpdatePowerUps(pus, t) ==
    SelectSeq(pus, LAMBDA pu : ~(t - pu.createdAt > PowerUpLifetime))

(***************************************************************************)
(* GameLoop.checkBulletPlayerCollisions                                    *)
(***************************************************************************)
\* a variant that forgets the owner test
SkipsPlayerNoOwnerTest(bullet, id, player, t) ==
    ~player.isAlive \/ t < player.invulnerableUntil

\* a variant that forgets the isAlive test
SkipsPlayerNoAliveTest(bullet, id, player, t) ==
    bullet.ownerId = id \/ t < player.invulnerableUntil

\* a variant that forgets the invulnerability test
SkipsPlayerNoInvulnerableTest(bullet, id, player, t) ==
    bullet.ownerId = id \/ ~player.isAlive

\* the two `continue` tests of the inner loop
SkipsPlayer(bullet, id, player, t) ==
    bullet.ownerId = id \/ ~player.isAlive \/ t < player.invulnerableUntil

\* a variant that computes the damage and does not store it
ApplyDamageDropped(player, bullet) == player

\* player.hp -= bullet.damage
ApplyDamage(player, bullet) == [player EXCEPT !.hp = @ - bullet.damage]

\* if (player.hp <= 0)
IsLethal(player) == player.hp <= 0

\* player.isAlive = false; player.deaths++
KillPlayer(player) == [player EXCEPT !.isAlive = FALSE, !.deaths = @ + 1]

\* a variant that forgets shooter.kills++
AwardKillScoreOnly(shooter) == [shooter EXCEPT !.score = @ + KillScore]

\* shooter.score += 100; shooter.kills++
AwardKill(shooter) == [shooter EXCEPT !.score = @ + KillScore, !.kills = @ + 1]

\* a variant that credits the kill of an absent shooter to the player who died
KillAwardeeOrTarget(ps, bullet, target) ==
    IF bullet.ownerId \in DOMAIN ps THEN bullet.ownerId ELSE target

\* getPlayer(bullet.ownerId) and `if (shooter)`: who is credited with a kill
KillAwardee(ps, bullet, target) ==
    IF bullet.ownerId \in DOMAIN ps THEN bullet.ownerId ELSE None

\* the first player, in iteration order, the bullet hits; None when it hits nobody
FirstPlayerHit(ps, bullet, t) ==
    LET cands == {id \in DOMAIN ps :
                     ~SkipsPlayer(bullet, id, ps[id], t) /\ BulletHitsPlayer(bullet, ps[id])}
    IN  IF cands = {} THEN None ELSE CHOOSE id \in cands : \A o \in cands : id <= o

\* the bullet overlaps its own owner, who is alive and not invulnerable
OverlapsOwnOwner(ps, bullet, t) ==
    /\ bullet.ownerId \in DOMAIN ps
    /\ ps[bullet.ownerId].isAlive
    /\ ~(t < ps[bullet.ownerId].invulnerableUntil)
    /\ BulletHitsPlayer(bullet, ps[bullet.ownerId])

\* the bullet overlaps a dead player other than its owner
OverlapsDeadPlayer(ps, bullet) ==
    \E id \in DOMAIN ps :
        id # bullet.ownerId /\ ~ps[id].isAlive /\ BulletHitsPlayer(bullet, ps[id])

\* the bullet overlaps an alive, invulnerable player other than its owner
OverlapsInvulnerable(ps, bullet, t) ==
    \E id \in DOMAIN ps :
        /\ id # bullet.ownerId
        /\ ps[id].isAlive
        /\ t < ps[id].invulnerableUntil
        /\ BulletHitsPlayer(bullet, ps[id])

\* every player's counters
Counters(ps) ==
    [id \in DOMAIN ps |->
        [score |-> ps[id].score, kills |-> ps[id].kills, deaths |-> ps[id].deaths]]

\* the body of the outer loop for one bullet;
\* w = [ps, remove, events, log, ownSkips, deadSkips, invSkips]
BulletPlayerStep(w, bullet, t) ==
    LET target == FirstPlayerHit(w.ps, bullet, t)
        skips == IF OverlapsOwnOwner(w.ps, bullet, t)
                    THEN w.ownSkips \cup {bullet.id} ELSE w.ownSkips
        dead == IF OverlapsDeadPlayer(w.ps, bullet)
                   THEN w.deadSkips \cup {bullet.id} ELSE w.deadSkips
        inv == IF OverlapsInvulnerable(w.ps, bullet, t)
                  THEN w.invSkips \cup {bullet.id} ELSE w.invSkips
    IN  IF target = None
        THEN [w EXCEPT !.ownSkips = skips, !.deadSkips = dead, !.invSkips = inv]
        ELSE
        LET hurt == ApplyDamage(w.ps[target], bullet)
            lethal == IsLethal(hurt)
            awardee == KillAwardee(w.ps, bullet, target)
            ps1 == [w.ps EXCEPT ![target] = IF lethal THEN KillPlayer(hurt) ELSE hurt]
            ps2 == IF lethal /\ awardee # None
                      THEN [ps1 EXCEPT ![awardee] = AwardKill(@)]
                      ELSE ps1
            hitEv == [type |-> "playerHit", target |-> target,
                      by |-> bullet.ownerId, arg |-> bullet.damage]
            deathEv == [type |-> "playerDeath", target |-> target,
                        by |-> bullet.ownerId, arg |-> 0]
            emitted == IF lethal THEN <<hitEv, deathEv>> ELSE <<hitEv>>
            entry == [bullet |-> bullet.id, kind |-> "player", target |-> target,
                      owner |-> bullet.ownerId, damage |-> bullet.damage,
                      hpBefore |-> w.ps[target].hp, hpAfter |-> ps2[target].hp,
                      aliveAfter |-> ps2[target].isAlive, emitted |-> emitted,
                      invulnerable |-> t < w.ps[target].invulnerableUntil,
                      before |-> Counters(w.ps), after |-> Counters(ps2)]
        IN  [ps |-> ps2,
             remove |-> w.remove \cup {bullet.id},
             events |-> w.events \o emitted,
             log |-> Append(w.log, entry),
             ownSkips |-> skips,
             deadSkips |-> dead,
             invSkips |-> inv]

RECURSIVE BulletPlayerLoop(_, _, _, _)
BulletPlayerLoop(w, bs, i, t) ==
    IF i > Len(bs) THEN w
    ELSE BulletPlayerLoop(BulletPlayerStep(w, bs[i], t), bs, i + 1, t)

\* a variant in which the bullets marked for removal stay in the world
RemoveHitBulletsNever(bs, ids) == bs

\* GameState.removeBullet for each id in bulletsToRemove
RemoveHitBullets(bs, ids) == RemoveIds(bs, ids)

(***************************************************************************)
(* GameLoop.checkBulletBlockCollisions                                     *)
(***************************************************************************)
FirstBlockHit(bks, bullet) ==
    LET cands == {j \in 1..Len(bks) : BulletHitsBlock(bullet, bks[j])}
    IN  IF cands = {} THEN 0 ELSE CHOOSE j \in cands : \A o \in cands : j <= o

\* w = [bks, remove, removeBlocks, events, log]
BulletBlockStep(w, bullet) ==
    LET j == FirstBlockHit(w.bks, bullet)
    IN  IF j = 0 THEN w
        ELSE
        LET hpAfter == w.bks[j].hp - bullet.damage
            destroyed == hpAfter <= 0
            ev == [type |-> "blockDestroyed", target |-> w.bks[j].id, by |-> None, arg |-> 0]
            entry == [bullet |-> bullet.id, kind |-> "block", target |-> w.bks[j].id,
                      owner |-> bullet.ownerId, damage |-> bullet.damage,
                      hpBefore |-> w.bks[j].hp, hpAfter |-> hpAfter,
                      aliveAfter |-> ~destroyed,
                      emitted |-> IF destroyed THEN <<ev>> ELSE <<>>]
        IN  [bks |-> [w.bks EXCEPT ![j].hp = hpAfter],
             remove |-> w.remove \cup {bullet.id},
             removeBlocks |-> IF destroyed THEN w.removeBlocks \cup {w.bks[j].id}
                                           ELSE w.removeBlocks,
             events |-> IF destroyed THEN Append(w.events, ev) ELSE w.events,
             log |-> Append(w.log, entry)]

RECURSIVE BulletBlockLoop(_, _, _)
BulletBlockLoop(w, bs, i) ==
    IF i > Len(bs) THEN w
    ELSE BulletBlockLoop(BulletBlockStep(w, bs[i]), bs, i + 1)

(***************************************************************************)
(* GameLoop.applyPowerUp, checkPlayerPowerUpCollisions                     *)
(***************************************************************************)
ApplyPowerUp(player, powerUp, t) ==
    CASE powerUp.type = "tripleShot" ->
            [player EXCEPT !.hasTripleShot = TRUE, !.tripleShotUntil = t + TripleShotDuration]
      [] powerUp.type = "speed" ->
            [player EXCEPT !.hasSpeedBoost = TRUE, !.speedBoostUntil = t + SpeedBoostDuration]
      [] powerUp.type = "heal" ->
            [player EXCEPT !.hp = Min(PlayerMaxHp, @ + HealAmount)]
      [] OTHER -> player

FirstCollector(ps, powerUp) ==
    LET cands == {id \in DOMAIN ps : ps[id].isAlive /\ PlayerHitsPowerUp(ps[id], powerUp)}
    IN  IF cands = {} THEN None ELSE CHOOSE id \in cands : \A o \in cands : id <= o

\* what the power-ups act on
Boosts(p) ==
    [hp |-> p.hp, hasTripleShot |-> p.hasTripleShot, tripleShotUntil |-> p.tripleShotUntil,
     hasSpeedBoost |-> p.hasSpeedBoost, speedBoostUntil |-> p.speedBoostUntil]

\* how often each power-up has been collected, the pickups of a phase added
Tally(counts, log) ==
    LET ids == {log[i].powerUp : i \in {j \in 1..Len(log) : log[j].by # None}}
        Times(id) == Cardinality({i \in 1..Len(log) : log[i].by # None /\ log[i].powerUp = id})
    IN  [id \in DOMAIN counts \cup ids |->
            (IF id \in DOMAIN counts THEN counts[id] ELSE 0) + Times(id)]

\* a variant that leaves the collected power-ups in the world
RemoveCollectedNever(pus, ids) == pus

\* the removal loop that ends the phase
RemoveCollected(pus, ids) == RemoveIds(pus, ids)

\* the alive players that overlap the power-up
Overlappers(ps, powerUp) ==
    {id \in DOMAIN ps : ps[id].isAlive /\ PlayerHitsPowerUp(ps[id], powerUp)}

\* the body of the outer loop for one power-up; w = [ps, remove, events, log]
PowerUpStep(w, powerUp, t) ==
    LET id == FirstCollector(w.ps, powerUp)
        ps1 == IF id = None THEN w.ps
               ELSE [w.ps EXCEPT ![id] = ApplyPowerUp(@, powerUp, t)]
        emitted == IF id = None THEN <<>>
                   ELSE <<[type |-> "powerUpCollected", target |-> id,
                           by |-> None, arg |-> powerUp.type]>>
        entry == [powerUp |-> powerUp.id, type |-> powerUp.type, at |-> t,
                  overlappers |-> Overlappers(w.ps, powerUp), by |-> id,
                  changed |-> {p \in DOMAIN w.ps : ps1[p] # w.ps[p]},
                  hpBefore |-> IF id = None THEN None ELSE w.ps[id].hp,
                  effect |-> IF id = None THEN None ELSE Boosts(ps1[id]),
                  emitted |-> emitted]
    IN  [ps |-> ps1,
         remove |-> IF id = None THEN w.remove ELSE w.remove \cup {powerUp.id},
         events |-> w.events \o emitted,
         log |-> Append(w.log, entry)]

RECURSIVE PowerUpLoop(_, _, _, _)
PowerUpLoop(w, pus, i, t) ==
    IF i > Len(pus) THEN w
    ELSE PowerUpLoop(PowerUpStep(w, pus[i], t), pus, i + 1, t)

(***************************************************************************)
(* GameLoop.checkPlayerBlockCollisions                                     *)
(***************************************************************************)
RECURSIVE PushPlayer(_, _, _)
PushPlayer(player, bks, j) ==
    IF j > Len(bks) THEN player
    ELSE LET pushback == GetPlayerBlockPushback(player, bks[j])
         IN  PushPlayer([player EXCEPT !.x = @ + pushback.x, !.z = @ + pushback.z],
                        bks, j + 1)

CheckPlayerBlockCollisions(ps, bks) ==
    [id \in DOMAIN ps |-> IF ps[id].isAlive THEN PushPlayer(ps[id], bks, 1) ELSE ps[id]]

(***************************************************************************)
(* GameState.updateSpawns, updateArenaSize: the live-count caps            *)
(***************************************************************************)
MaxPowerUps == 1
MaxBlocks == 2

\* what one updateSpawns call may add: nothing, one power-up or one block, at
\* its usual point or at a given position
SpawnChoices(pus, bks) ==
    {[kind |-> "none", type |-> "none"]}
    \cup (IF Len(pus) < MaxPowerUps
             THEN {[kind |-> "powerUp", type |-> ty] : ty \in PowerUpTypes}
                  \cup {[kind |-> "powerUp", type |-> ty, at |-> pos] :
                            ty \in PowerUpTypes, pos \in EntityPoints}
             ELSE {})
    \cup (IF Len(bks) < MaxBlocks
             THEN {[kind |-> "block", type |-> "none"]}
                  \cup {[kind |-> "block", type |-> "none", at |-> pos] :
                            pos \in EntityPoints}
             ELSE {})

(***************************************************************************)
(* The state after construction                                            *)
(***************************************************************************)
NoTick ==
    [events |-> <<>>, log |-> <<>>, ownSkips |-> {}, deadSkips |-> {}, invSkips |-> {},
     afterBulletPlayer |-> {}, afterBulletBlock |-> {}, dt |-> 0, at |-> 0,
     start |-> <<>>, mid |-> <<>>, end |-> <<>>,
     pickups |-> <<>>, afterPowerUps |-> {}, collected |-> <<>>,
     wasRunning |-> FALSE, stopped |-> FALSE, completed |-> FALSE]

NoShot ==
    [pid |-> None, at |-> None, created |-> <<>>, added |-> 0, alive |-> FALSE,
     present |-> FALSE, changed |-> FALSE,
     prev |-> None, since |-> None, lastBefore |-> None, lastAfter |-> None,
     flagAfter |-> FALSE, successes |-> [id \in PlayerIds |-> None]]

\* no tick callback is on the stack
NoTickRunning ==
    [at |-> "idle", dt |-> 0, todo |-> {}, seen |-> <<>>, read |-> <<>>,
     expected |-> <<>>, intruded |-> FALSE]

\* no respawnPlayer call yet
NoRespawn == [pid |-> None, returned |-> None, changed |-> FALSE, call |-> 0]

\* no start() or stop() call yet
NoLoopCall ==
    [op |-> "none", wasRunning |-> FALSE, changed |-> FALSE, startedAt |-> None,
     elapsed |-> 0]

GameInit ==
    /\ now = StartTime
    /\ advances = 0
    /\ calls = 0
    /\ tickPhase = NoTickRunning
    /\ isRunning = FALSE
    /\ intervalId = FALSE
    /\ activeTimers = 0
    /\ lastTick = StartTime
    /\ arenaSize = InitialArenaSize
    /\ players = [id \in {} |-> NewPlayer(PowerUpPoint)]
    /\ joined = 0
    /\ bullets = <<>>
    /\ nextBulletId = 1
    /\ blocks = <<[id |-> 1, x |-> BlockPoint.x, z |-> BlockPoint.z, hp |-> BlockHp]>>
    /\ powerUps = <<>>
    /\ nextEntityId = 2
    /\ last = NoTick
    /\ ticks = 0
    /\ shootLog = NoShot
    /\ loopLog = NoLoopCall
    /\ respawnLog = NoRespawn
    /\ bulletHits = [b \in {} |-> 0]
    /\ deathsInLife = [id \in PlayerIds |-> [events |-> 0, counted |-> 0, credited |-> 0]]
    /\ tripleSince = [id \in PlayerIds |-> None]

HashIdle ==
    /\ cellSize = 100
    /\ cells = EmptyCells
    /\ inserted = {}
    /\ lastQuery = NoQuery

Init == HashIdle /\ GameInit

(***************************************************************************)
(* The environment: the clock, the clients                                 *)
(***************************************************************************)
Advance(d) ==
    /\ now' = now + d
    /\ UNCHANGED <<hashVars, loopVars, worldVars, historyVars>>

\* a client connects: the player gets the next id and a spawn position
Join(pos) ==
    /\ joined < Cardinality(PlayerIds)
    /\ players' = players @@ ((joined + 1) :> NewPlayer(pos))
    /\ joined' = joined + 1
    /\ UNCHANGED <<hashVars, now, loopVars, arenaSize, bullets, nextBulletId,
                   blocks, powerUps, nextEntityId, historyVars>>

\* a client disconnects: GameState.removePlayer
Leave(pid) ==
    /\ pid \in DOMAIN players
    /\ players' = [id \in DOMAIN players \ {pid} |-> players[id]]
    /\ UNCHANGED <<hashVars, now, loopVars, arenaSize, joined, bullets,
                   nextBulletId, blocks, powerUps, nextEntityId, historyVars>>

\* a client's input message replaces player.input
SetInput(pid, input) ==
    /\ pid \in DOMAIN players
    /\ players[pid].input # input
    /\ players' = [players EXCEPT ![pid].input = input]
    /\ UNCHANGED <<hashVars, now, loopVars, arenaSize, joined, bullets,
                   nextBulletId, blocks, powerUps, nextEntityId, historyVars>>

(***************************************************************************)
(* GameLoop.start, stop                                                    *)
(***************************************************************************)
\* a variant without the early return
StartUnguarded ==
    /\ isRunning' = TRUE
    /\ lastTick' = now
    /\ intervalId' = TRUE
    /\ activeTimers' = activeTimers + 1
    /\ UNCHANGED <<hashVars, now, worldVars, historyVars>>

\* a variant that leaves lastTick as the constructor or the last tick set it
StartKeepsLastTick ==
    /\ IF isRunning
          THEN UNCHANGED loopVars
          ELSE /\ isRunning' = TRUE
               /\ lastTick' = lastTick
               /\ intervalId' = TRUE
               /\ activeTimers' = activeTimers + 1
    /\ UNCHANGED <<hashVars, now, worldVars, historyVars>>

Start ==
    /\ IF isRunning
          THEN UNCHANGED loopVars
          ELSE /\ isRunning' = TRUE
               /\ lastTick' = now
               /\ intervalId' = TRUE
               /\ activeTimers' = activeTimers + 1
    /\ UNCHANGED <<hashVars, now, worldVars, historyVars>>

\* a variant that forgets clearInterval
StopLoopKeepsTimer ==
    /\ isRunning' = FALSE
    /\ intervalId' = FALSE
    /\ activeTimers' = activeTimers

\* what stop() does to the loop
StopLoop ==
    /\ isRunning' = FALSE
    /\ intervalId' = FALSE
    /\ activeTimers' = IF intervalId THEN activeTimers - 1 ELSE activeTimers

Stop ==
    /\ StopLoop
    /\ UNCHANGED <<hashVars, now, lastTick, worldVars, historyVars>>

(***************************************************************************)
(* GameLoop.playerShoot                                                    *)
(***************************************************************************)
\* a variant with <= for <
RateLimitedInclusive(player, t) == t - player.lastShotTime <= FireInterval

\* if (now - player.lastShotTime < 200) return []
RateLimited(player, t) == t - player.lastShotTime < FireInterval

\* a variant with <= for <
IsTripleInclusive(player, t) == player.hasTripleShot /\ t <= player.tripleShotUntil

\* const isTriple = player.hasTripleShot && now < player.tripleShotUntil
IsTriple(player, t) == player.hasTripleShot /\ t < player.tripleShotUntil

\* the bullets a successful shot of the player creates
ShotBullets(pid, player, firstId, t) ==
    AddBullet(firstId, pid,
              player.x + TruncDiv(SinK(player.turretAngle) * GunLength, 1000),
              player.z - TruncDiv(CosK(player.turretAngle) * GunLength, 1000),
              player.turretAngle, IsTriple(player, t), t)

\* what is remembered of a shoot call: the call, what it returned, and the
\* player before and after it
ShotRecord(pid, created, ps, bs) ==
    [pid |-> pid, at |-> now, created |-> created,
     added |-> Len(bs) - Len(bullets),
     alive |-> pid \in DOMAIN players /\ players[pid].isAlive,
     present |-> pid \in DOMAIN players,
     changed |-> ps # players \/ bs # bullets,
     prev |-> shootLog.successes[pid],
     since |-> tripleSince[pid],
     lastBefore |-> IF pid \in DOMAIN players THEN players[pid].lastShotTime ELSE None,
     lastAfter |-> IF pid \in DOMAIN ps THEN ps[pid].lastShotTime ELSE None,
     flagAfter |-> pid \in DOMAIN ps /\ ps[pid].hasTripleShot,
     successes |-> IF created # <<>> THEN [shootLog.successes EXCEPT ![pid] = now]
                                     ELSE shootLog.successes]

PlayerShoot(pid) ==
    IF pid \notin DOMAIN players \/ ~players[pid].isAlive \/ RateLimited(players[pid], now)
    THEN /\ shootLog' = ShotRecord(pid, <<>>, players, bullets)
         /\ UNCHANGED <<hashVars, now, loopVars, worldVars, last, ticks,
                        bulletHits, deathsInLife, tripleSince>>
    ELSE LET player == players[pid]
             created == ShotBullets(pid, player, nextBulletId, now)
         IN  /\ nextBulletId + Len(created) - 1 <= MaxBulletIds
             /\ players' = [players EXCEPT
                               ![pid].lastShotTime = now,
                               ![pid].hasTripleShot =
                                   IF now >= player.tripleShotUntil THEN FALSE ELSE @]
             /\ bullets' = bullets \o created
             /\ nextBulletId' = nextBulletId + Len(created)
             /\ bulletHits' = bulletHits @@ [b \in {c.id : c \in Range(created)} |-> 0]
             /\ shootLog' = ShotRecord(pid, created, players', bullets')
             /\ UNCHANGED <<hashVars, now, loopVars, arenaSize, joined, blocks,
                            powerUps, nextEntityId, last, ticks, deathsInLife,
                            tripleSince>>

(***************************************************************************)
(* GameLoop.respawnPlayer                                                  *)
(***************************************************************************)
\* a variant of Respawned that starts the counters of the player afresh too
RespawnedResetsCounters(player, pos, t) ==
    [player EXCEPT !.x = pos.x, !.z = pos.z, !.hp = PlayerMaxHp, !.isAlive = TRUE,
                   !.score = 0, !.kills = 0, !.deaths = 0,
                   !.hasTripleShot = FALSE, !.hasSpeedBoost = FALSE,
                   !.invulnerableUntil = t + RespawnInvulnerability]

\* a variant of Respawned that lets the player keep their score
RespawnedKeepsScore(player, pos, t) ==
    [player EXCEPT !.x = pos.x, !.z = pos.z, !.hp = PlayerMaxHp, !.isAlive = TRUE,
                   !.hasTripleShot = FALSE, !.hasSpeedBoost = FALSE,
                   !.invulnerableUntil = t + RespawnInvulnerability]

Respawned(player, pos, t) ==
    [player EXCEPT !.x = pos.x, !.z = pos.z, !.hp = PlayerMaxHp, !.isAlive = TRUE,
                   !.score = 0, !.hasTripleShot = FALSE, !.hasSpeedBoost = FALSE,
                   !.invulnerableUntil = t + RespawnInvulnerability]

RespawnPlayer(pid, pos) ==
    /\ pos \in SpawnPositions(arenaSize)
    /\ IF pid \notin DOMAIN players
          THEN UNCHANGED <<players, deathsInLife, tripleSince>>
          ELSE /\ players' = [players EXCEPT ![pid] = Respawned(@, pos, now)]
               /\ deathsInLife' = [deathsInLife EXCEPT ![pid] = [events |-> 0, counted |-> 0, credited |-> 0]]
               /\ tripleSince' = [tripleSince EXCEPT ![pid] = None]
    /\ UNCHANGED <<hashVars, now, loopVars, arenaSize, joined, bullets,
                   nextBulletId, blocks, powerUps, nextEntityId, last, ticks, shootLog,
                   bulletHits>>


(***************************************************************************)
(* GameLoop.tick                                                           *)
(***************************************************************************)
Ids(seq) == {e.id : e \in Range(seq)}

\* where the new entity of a spawn choice appears
SpawnPointOf(choice, usual) == IF "at" \in DOMAIN choice THEN choice.at ELSE usual

\* GameState.updateSpawns
UpdateSpawns(pus, bks, choice, id, t) ==
    [pus |-> IF choice.kind = "powerUp"
                THEN Append(pus, [id |-> id, x |-> SpawnPointOf(choice, PowerUpPoint).x,
                                  z |-> SpawnPointOf(choice, PowerUpPoint).z,
                                  type |-> choice.type, createdAt |-> t])
                ELSE pus,
     bks |-> IF choice.kind = "block"
                THEN Append(bks, [id |-> id, x |-> SpawnPointOf(choice, BlockPoint).x,
                                  z |-> SpawnPointOf(choice, BlockPoint).z,
                                  hp |-> BlockHp])
                ELSE bks]

\* how often each bullet id occurs in a hit log
HitCounts(log, hits) ==
    [b \in DOMAIN hits |->
        hits[b] + Cardinality({i \in 1..Len(log) : log[i].bullet = b})]

DeathCount(events, pid) ==
    Cardinality({i \in 1..Len(events) :
                    events[i].type = "playerDeath" /\ events[i].target = pid})

\* how many death events of a tick name the player as the killer
KillCount(events, pid) ==
    Cardinality({i \in 1..Len(events) :
                    events[i].type = "playerDeath" /\ events[i].by = pid})

\* by how much a tick raised the player's deaths counter
DeathsAdded(before, after, pid) ==
    IF pid \in DOMAIN before THEN after[pid].deaths - before[pid].deaths ELSE 0

Collected(events, pid, type) ==
    \E i \in 1..Len(events) :
        events[i].type = "powerUpCollected" /\ events[i].target = pid /\ events[i].arg = type

\* the players a tick must treat specially: the dead and the invulnerable
Watched(ps, t) ==
    {id \in DOMAIN ps : ~ps[id].isAlive \/ t < ps[id].invulnerableUntil}

\* what a tick finds of such a player: all of a dead player,
\* and of an invulnerable one what the tick must keep or move
Found(ps, ids) ==
    [id \in ids \cap DOMAIN ps |->
        IF ~ps[id].isAlive THEN ps[id]
        ELSE [isAlive |-> TRUE, hp |-> ps[id].hp, deaths |-> ps[id].deaths,
              x |-> ps[id].x, z |-> ps[id].z, turretAngle |-> ps[id].turretAngle,
              input |-> ps[id].input]]

\* tick() never reads isRunning: once begun it runs every step
RunsRemainingStepsOnlyIfRunning(running) == running

RunsRemainingSteps(running) == TRUE

\* tick() from updateBullets on, given the players as updatePlayers left them;
\* every phase is evaluated once and handed to the next one; callbackStops says
\* that a callback of an event emitted by checkCollisions calls stop()
TickFrom(moved, dt, spawnChoice, newArena, callbackStops) ==
    /\ nextEntityId + (IF spawnChoice.kind = "none" THEN 0 ELSE 1) <= MaxEntityIds + 1
    /\ \E ps1 \in {moved},
          bs1 \in {UpdateBullets(bullets, dt, now, arenaSize)},
          pus1 \in {UpdatePowerUps(powerUps, now)} :
       \* checkCollisions
       \E bp \in {BulletPlayerLoop([ps |-> ps1, remove |-> {}, events |-> <<>>,
                                    log |-> <<>>, ownSkips |-> {}, deadSkips |-> {},
                                    invSkips |-> {}],
                                   bs1, 1, now)} :
       \E bs2 \in {RemoveHitBullets(bs1, bp.remove)} :
       \E bb \in {BulletBlockLoop([bks |-> blocks, remove |-> {}, removeBlocks |-> {},
                                   events |-> bp.events, log |-> bp.log], bs2, 1)} :
       \E bs3 \in {RemoveHitBullets(bs2, bb.remove)},
          bks3 \in {RemoveIds(bb.bks, bb.removeBlocks)} :
       \E pp \in {PowerUpLoop([ps |-> bp.ps, remove |-> {}, events |-> bb.events,
                               log |-> <<>>],
                              pus1, 1, now)} :
       \E pus3 \in {RemoveCollected(pus1, pp.remove)},
          ps4 \in {CheckPlayerBlockCollisions(pp.ps, bks3)} :
       \E goesOn \in {RunsRemainingSteps(isRunning /\ ~callbackStops)} :
       \* updateSpawns, updateArenaSize
       \E spawned \in {IF goesOn
                          THEN UpdateSpawns(pus3, bks3, spawnChoice, nextEntityId, now)
                          ELSE [pus |-> pus3, bks |-> bks3]},
          events \in {IF goesOn /\ newArena # arenaSize
                         THEN Append(pp.events, [type |-> "arenaResize", target |-> None,
                                                 by |-> None, arg |-> newArena])
                         ELSE pp.events} :
           /\ spawnChoice \in SpawnChoices(pus3, bks3)
           /\ callbackStops => pp.events # <<>>
           /\ IF callbackStops THEN StopLoop
                               ELSE UNCHANGED <<isRunning, intervalId, activeTimers>>
           /\ lastTick' = now
           /\ players' = ps4
           /\ bullets' = bs3
           /\ blocks' = spawned.bks
           /\ powerUps' = spawned.pus
           /\ nextEntityId' = IF spawnChoice.kind = "none" \/ ~goesOn
                                 THEN nextEntityId ELSE nextEntityId + 1
           /\ arenaSize' = IF goesOn THEN newArena ELSE arenaSize
           /\ bulletHits' = HitCounts(bb.log, bulletHits)
           /\ deathsInLife' = [id \in PlayerIds |->
                                  [events |-> deathsInLife[id].events
                                                 + DeathCount(events, id),
                                   counted |-> deathsInLife[id].counted
                                                  + DeathsAdded(players, ps4, id),
                                   credited |-> deathsInLife[id].credited
                                                   + KillCount(events, id)]]
           /\ tripleSince' = [id \in PlayerIds |->
                                 IF Collected(events, id, "tripleShot") THEN now
                                 ELSE tripleSince[id]]
           /\ last' = [events |-> events, log |-> bb.log, ownSkips |-> bp.ownSkips,
                        deadSkips |-> bp.deadSkips, invSkips |-> bp.invSkips,
                        afterBulletPlayer |-> Ids(bs2), afterBulletBlock |-> Ids(bs3),
                        dt |-> dt, at |-> now,
                        start |-> Found(players, Watched(players, now)),
                        mid |-> Found(bp.ps, Watched(bp.ps, now)),
                        end |-> Found(ps4, Watched(players, now)
                                              \cup Watched(bp.ps, now)),
                        pickups |-> pp.log, afterPowerUps |-> Ids(pus3),
                        collected |-> Tally(last.collected, pp.log),
                        wasRunning |-> isRunning, stopped |-> callbackStops,
                        completed |-> goesOn]
           /\ ticks' = ticks + 1
    /\ UNCHANGED <<hashVars, now, joined, nextBulletId, shootLog>>

\* tick() as one step
TickWith(spawnChoice, newArena, callbackStops) ==
    /\ activeTimers > 0
    /\ now > lastTick
    /\ TickFrom(UpdatePlayers(players, now - lastTick, now, arenaSize), now - lastTick,
                spawnChoice, newArena, callbackStops)

\* a firing of the interval whose callbacks leave the loop alone
Tick(spawnChoice, newArena) == TickWith(spawnChoice, newArena, FALSE)

\* a call of a client, counted
Call(A) ==
    /\ calls < MaxCalls
    /\ calls' = calls + 1
    /\ UNCHANGED <<advances, tickPhase, loopLog, respawnLog>>
    /\ A

\* a call of start() or stop(), of which the caller notes what it found and
\* did, and the time of the latest start() that started the loop
LoopCall(op, A) ==
    /\ calls < MaxCalls
    /\ calls' = calls + 1
    /\ UNCHANGED <<advances, tickPhase, respawnLog>>
    /\ A
    /\ loopLog' =
           [op |-> op, wasRunning |-> isRunning, changed |-> loopVars' # loopVars,
            startedAt |-> IF op = "start" /\ ~isRunning THEN now ELSE loopLog.startedAt,
            elapsed |-> IF op = "start" /\ ~isRunning THEN 0 ELSE loopLog.elapsed]

\* a tick, of which the caller adds the deltaTime to those since the latest start
LoopTick(A) ==
    /\ UNCHANGED <<advances, calls, tickPhase, respawnLog>>
    /\ A
    /\ loopLog' = [loopLog EXCEPT !.elapsed = @ + last'.dt]

\* a call of respawnPlayer, of which the caller notes what it returned and did
RespawnCall(pid, pos) ==
    /\ calls < MaxCalls
    /\ calls' = calls + 1
    /\ UNCHANGED <<advances, tickPhase, loopLog>>
    /\ RespawnPlayer(pid, pos)
    /\ respawnLog' = [pid |-> pid,
                      returned |-> IF pid \in DOMAIN players THEN pid ELSE None,
                      changed |-> worldVars' # worldVars,
                      call |-> calls']

\* a step of the server or of the clock
Step(A) == UNCHANGED envVars /\ A

Tock(d) ==
    /\ advances < MaxAdvances
    /\ advances' = advances + 1
    /\ UNCHANGED <<calls, tickPhase, loopLog, respawnLog>>
    /\ Advance(d)

(***************************************************************************)
(* Spec: an arena of constant size in which two players may join, the      *)
(* first one west, the second one east. The first one aims east and        *)
(* shoots; respawns land east; a triple-shot power-up may appear.          *)
(***************************************************************************)
Shooter == 1

West == [x |-> 0 - 40, z |-> 0]

East == [x |-> 40, z |-> 0]

JoinPosition == IF joined = 0 THEN West ELSE East

\* who may ask to respawn
Respawnable == {Shooter} \cup {id \in DOMAIN players : ~players[id].isAlive}

\* updateSpawns adds nothing, or a triple-shot power-up
TripleShotSpawns == {[kind |-> "none", type |-> "none"], [kind |-> "powerUp", type |-> "tripleShot"]}

Next ==
    \/ \E d \in {100} : Tock(d)
    \/ \E pos \in {JoinPosition} : Step(Join(pos))
    \/ \E input \in AimChoices : Call(SetInput(Shooter, input))
    \/ Step(Start)
    \/ Call(PlayerShoot(Shooter))
    \/ \E pid \in Respawnable, pos \in {East} : Call(RespawnPlayer(pid, pos))
    \/ \E choice \in TripleShotSpawns : Step(Tick(choice, arenaSize))

Spec == Init /\ [][Next]_vars

(***************************************************************************)
(* SpecShoot: one player, who shoots; the clock is seen after 100 ms or    *)
(* after 10 s.                                                             *)
(***************************************************************************)
NextShoot ==
    \/ \E d \in Deltas : Tock(d)
    \/ \E pos \in {West} : Step(Join(pos))
    \/ Step(Start)
    \/ Call(PlayerShoot(Shooter))
    \/ \E choice \in TripleShotSpawns : Step(Tick(choice, arenaSize))

SpecShoot == Init /\ [][NextShoot]_vars

(***************************************************************************)
(* SpecArena: one player, who aims east and shoots, in an arena that       *)
(* updateArenaSize may resize at the end of a tick.                        *)
(***************************************************************************)
NextArena ==
    \/ \E d \in {100} : Tock(d)
    \/ \E pos \in SpawnPositions(arenaSize) : Step(Join(pos))
    \/ \E input \in {Aim(90)} : Call(SetInput(Shooter, input))
    \/ Step(Start)
    \/ Call(PlayerShoot(Shooter))
    \/ \E size \in ArenaSizes : Step(Tick([kind |-> "none", type |-> "none"], size))

SpecArena == Init /\ [][NextArena]_vars

(***************************************************************************)
(* SpecFrame: the first player joins south of the second one and shoots    *)
(* north at them; the second one may drive south and ask to shoot once     *)
(* dead; a heal or a block may appear under the second player.             *)
(***************************************************************************)
Victim == 2

South == [x |-> 40, z |-> 90]

FramePosition == IF joined = 0 THEN South ELSE East

\* who may ask to shoot
Shooters == {Shooter} \cup {id \in DOMAIN players : ~players[id].isAlive}

\* updateSpawns adds nothing, or a heal or a block where the second player joined
FrameSpawns ==
    {[kind |-> "none", type |-> "none"],
     [kind |-> "powerUp", type |-> "heal", at |-> East],
     [kind |-> "block", type |-> "none", at |-> East]}

NextFrame ==
    \/ \E d \in {100} : Tock(d)
    \/ \E pos \in {FramePosition} : Step(Join(pos))
    \/ \E input \in {MoveDown} : Step(SetInput(Victim, input))
    \/ Step(Start)
    \/ \E pid \in Shooters : Call(PlayerShoot(pid))
    \/ \E choice \in FrameSpawns : Step(Tick(choice, arenaSize))

SpecFrame == Init /\ [][NextFrame]_vars

(***************************************************************************)
(* SpecShield: as SpecFrame, but the second player may respawn where they  *)
(* stand, which makes them invulnerable, and only a heal may appear.       *)
(***************************************************************************)
HealSpawns ==
    {[kind |-> "none", type |-> "none"],
     [kind |-> "powerUp", type |-> "heal", at |-> East]}

NextShield ==
    \/ \E d \in {100} : Tock(d)
    \/ \E pos \in {FramePosition} : Step(Join(pos))
    \/ \E input \in {MoveDown} : Step(SetInput(Victim, input))
    \/ Step(Start)
    \/ Call(PlayerShoot(Shooter))
    \/ \E pid \in {Victim} \cap DOMAIN players, pos \in {East} : Call(RespawnPlayer(pid, pos))
    \/ \E choice \in HealSpawns : Step(Tick(choice, arenaSize))

SpecShield == Init /\ [][NextShield]_vars

(***************************************************************************)
(* SpecRespawn: as SpecFrame, but the second player stands still, a speed  *)
(* power-up may appear under the first player, and the first player and    *)
(* the dead may respawn east; the caller of respawnPlayer notes which call *)
(* it was and what it returned.                                            *)
(***************************************************************************)
\* updateSpawns adds nothing, or a speed power-up where the first player joined
SpeedSpawns ==
    {[kind |-> "none", type |-> "none"],
     [kind |-> "powerUp", type |-> "speed", at |-> South]}

NextRespawn ==
    \/ \E d \in {100} : Tock(d)
    \/ \E pos \in {FramePosition} : Step(Join(pos))
    \/ Step(Start)
    \/ Call(PlayerShoot(Shooter))
    \/ \E pid \in Respawnable, pos \in {East} : RespawnCall(pid, pos)
    \/ \E choice \in SpeedSpawns : Step(Tick(choice, arenaSize))

SpecRespawn == Init /\ [][NextRespawn]_vars

(***************************************************************************)
(* SpecExpiry: one player, who stands west; a heal may appear under them   *)
(* or out of their reach in the east; the clock is seen after 100 ms or    *)
(* after 30 s.                                                             *)
(***************************************************************************)
\* updateSpawns adds nothing, or a heal in the west or in the east
FarSpawns == HealSpawns \cup {[kind |-> "powerUp", type |-> "heal"]}

NextExpiry ==
    \/ \E d \in {100, PowerUpLifetime} : Tock(d)
    \/ \E pos \in {West} : Step(Join(pos))
    \/ Step(Start)
    \/ \E choice \in FarSpawns : Step(Tick(choice, arenaSize))

SpecExpiry == Init /\ [][NextExpiry]_vars

(***************************************************************************)
(* SpecBullets: one player, who stands west, aims east across the arena    *)
(* and shoots while the loop runs and at least 400 ms of the observed time *)
(* remain; the clock is seen every 200 ms. The clock and the timer of a    *)
(* started loop do not stall: while time remains the clock advances, and   *)
(* the callback of setInterval runs whenever it is due.                    *)
(***************************************************************************)
Fire(pid) ==
    /\ isRunning
    /\ advances + 2 <= MaxAdvances
    /\ Call(PlayerShoot(pid))

NextBullets ==
    \/ \E d \in {200} : Tock(d)
    \/ \E pos \in {West} : Step(Join(pos))
    \/ \E input \in {Aim(90)} : Step(SetInput(Shooter, input))
    \/ Step(Start)
    \/ Fire(Shooter)
    \/ \E choice \in {[kind |-> "none", type |-> "none"]} : Step(Tick(choice, arenaSize))

SpecBullets ==
    /\ Init
    /\ [][NextBullets]_vars
    /\ WF_vars(Tock(200))
    /\ WF_vars(Step(Tick([kind |-> "none", type |-> "none"], arenaSize)))

(***************************************************************************)
(* SpecShrink: one player, who joins at a spawn position of the arena and  *)
(* may drive south, in an arena that updateArenaSize may resize at the end *)
(* of a tick.                                                              *)
(***************************************************************************)
NextShrink ==
    \/ \E d \in {100} : Tock(d)
    \/ \E pos \in SpawnPositions(arenaSize) : Step(Join(pos))
    \/ \E input \in {NoInput, MoveDown} : Call(SetInput(Shooter, input))
    \/ Step(Start)
    \/ \E size \in ArenaSizes : Step(Tick([kind |-> "none", type |-> "none"], size))

SpecShrink == Init /\ [][NextShrink]_vars

(***************************************************************************)
(* SpecBoost: the movement phase, seen from the states in which one player *)
(* who holds the down key can be when the observation begins: just joined, *)
(* alive with a speed boost that ends in 100 or 200 ms, or dead with a     *)
(* speed boost that ends in 100 ms or in 8 s. A speed power-up may appear  *)
(* south of the player; the clock is seen after 100 ms or after 8 s.       *)
(***************************************************************************)
DrivenPlayers ==
    {[NewPlayer(East) EXCEPT !.input = MoveDown]}
    \cup {[NewPlayer(East) EXCEPT !.input = MoveDown, !.hasSpeedBoost = TRUE,
                                  !.speedBoostUntil = StartTime + d] : d \in {100, 200}}
    \cup {[NewPlayer(East) EXCEPT !.input = MoveDown, !.hasSpeedBoost = TRUE,
                                  !.speedBoostUntil = StartTime + d,
                                  !.isAlive = FALSE, !.deaths = 1,
                                  !.hp = PlayerMaxHp - 2 * BulletDamage] :
              d \in {100, SpeedBoostDuration}}

BoostInit ==
    /\ HashIdle
    /\ now = StartTime
    /\ advances = 0
    /\ calls = 0
    /\ tickPhase = NoTickRunning
    /\ isRunning = FALSE
    /\ intervalId = FALSE
    /\ activeTimers = 0
    /\ lastTick = StartTime
    /\ arenaSize = InitialArenaSize
    /\ players \in {Shooter :> p : p \in DrivenPlayers}
    /\ joined = 1
    /\ bullets = <<>>
    /\ nextBulletId = 1
    /\ blocks = <<[id |-> 1, x |-> BlockPoint.x, z |-> BlockPoint.z, hp |-> BlockHp]>>
    /\ powerUps = <<>>
    /\ nextEntityId = 2
    /\ last = NoTick
    /\ ticks = 0
    /\ shootLog = NoShot
    /\ loopLog = NoLoopCall
    /\ respawnLog = NoRespawn
    /\ bulletHits = [b \in {} |-> 0]
    /\ deathsInLife =
           [id \in PlayerIds |->
               IF id = Shooter /\ ~players[Shooter].isAlive
                  THEN [events |-> 1, counted |-> 1, credited |-> 0]
                  ELSE [events |-> 0, counted |-> 0, credited |-> 0]]
    /\ tripleSince = [id \in PlayerIds |-> None]

NextBoost ==
    \/ \E d \in {100, SpeedBoostDuration} : Tock(d)
    \/ Step(Start)
    \/ \E choice \in SpeedSpawns : Step(Tick(choice, arenaSize))

SpecBoost == BoostInit /\ [][NextBoost]_vars

(***************************************************************************)
(* SpecLeave: as SpecFrame, but the second player stands still, nothing    *)
(* appears, and the first player may leave, after which they may still ask *)
(* to shoot or to respawn.                                                 *)
(***************************************************************************)
\* the ids of the players who left
Absent == {id \in 1..joined : id \notin DOMAIN players}

NextLeave ==
    \/ \E d \in {100} : Tock(d)
    \/ \E pos \in {FramePosition} : Step(Join(pos))
    \/ Step(Start)
    \/ Call(PlayerShoot(Shooter))
    \/ \E pid \in Absent, pos \in {East} : RespawnCall(pid, pos)
    \/ Step(Leave(Shooter))
    \/ \E choice \in {[kind |-> "none", type |-> "none"]} : Step(Tick(choice, arenaSize))

SpecLeave == Init /\ [][NextLeave]_vars

(***************************************************************************)
(* SpecLoop: the server starts and stops the loop at any time; one player  *)
(* joins on the spot where a triple-shot power-up may appear; the callback *)
(* of an event may call stop(), and updateArenaSize may resize the arena.  *)
(***************************************************************************)
NextLoop ==
    \/ \E d \in {100} : Tock(d)
    \/ \E pos \in {West} : Step(Join(pos))
    \/ LoopCall("start", Start)
    \/ LoopCall("stop", Stop)
    \/ \E choice \in TripleShotSpawns, size \in ArenaSizes, callbackStops \in BOOLEAN :
          LoopTick(TickWith(choice, size, callbackStops))

SpecLoop == Init /\ [][NextLoop]_vars

(***************************************************************************)
(* SpecPickup: two players join on the spot where power-ups appear; a      *)
(* power-up of any type may appear.                                        *)
(***************************************************************************)
\* updateSpawns adds nothing, or a power-up of some type
PowerUpSpawns ==
    {[kind |-> "none", type |-> "none"]}
    \cup {[kind |-> "powerUp", type |-> ty] : ty \in PowerUpTypes}

NextPickup ==
    \/ \E d \in {100} : Tock(d)
    \/ \E pos \in {West} : Step(Join(pos))
    \/ Step(Start)
    \/ \E choice \in PowerUpSpawns : Step(Tick(choice, arenaSize))

SpecPickup == Init /\ [][NextPickup]_vars

(***************************************************************************)
(* SpecTurn: tick() step by step.  The timer callback begins, moves the    *)
(* players one after the other, and runs the rest of the tick; the socket  *)
(* handlers (join, input, shoot, respawn) are other callbacks of the same  *)
(* event loop, which runs one callback at a time to its end.  The clock is *)
(* read as it stood when the tick began.                                   *)
(***************************************************************************)
\* a variant in which tick() awaits between its steps
TickYieldsBetweenSteps == TRUE

\* tick() is a plain synchronous method: it awaits nothing and returns only
\* after updateArenaSize
TickYields == FALSE

\* a socket handler: it runs when no callback is on the stack, or when the
\* one that is has yielded
Handler(A) ==
    /\ tickPhase.at = "idle" \/ TickYields
    /\ calls < MaxCalls
    /\ calls' = calls + 1
    /\ UNCHANGED <<advances, loopLog, respawnLog>>
    /\ A
    /\ tickPhase' = IF tickPhase.at = "idle" THEN tickPhase
                    ELSE [tickPhase EXCEPT !.intruded = TRUE]

\* the interval fires: const now, deltaTime, lastTick = now
TickBegin ==
    /\ tickPhase.at = "idle"
    /\ activeTimers > 0
    /\ now > lastTick
    /\ lastTick' = now
    /\ tickPhase' = [at |-> "move", dt |-> now - lastTick, todo |-> DOMAIN players,
                     seen |-> [id \in DOMAIN players |-> players[id].input],
                     read |-> <<>>,
                     expected |-> UpdatePlayers(players, now - lastTick, now, arenaSize),
                     intruded |-> FALSE]
    /\ UNCHANGED <<hashVars, now, isRunning, intervalId, activeTimers, worldVars,
                   historyVars, advances, calls, loopLog, respawnLog>>

\* one iteration of the loop of updatePlayers, in the order of the map
TickMove ==
    /\ tickPhase.at = "move"
    /\ tickPhase.todo # {}
    /\ \E id \in {i \in tickPhase.todo : \A o \in tickPhase.todo : i <= o} :
          /\ players' = [players EXCEPT ![id] =
                            IF @.isAlive THEN MovePlayer(@, tickPhase.dt, now, arenaSize)
                                         ELSE @]
          /\ tickPhase' = [tickPhase EXCEPT !.todo = @ \ {id},
                                            !.read = @ @@ (id :> players[id].input)]
    /\ UNCHANGED <<hashVars, now, loopVars, arenaSize, joined, bullets, nextBulletId,
                   blocks, powerUps, nextEntityId, historyVars, advances, calls,
                   loopLog, respawnLog>>

\* updateBullets to updateArenaSize, after which the callback returns
TickRest(spawnChoice) ==
    /\ tickPhase.at = "move"
    /\ tickPhase.todo = {}
    /\ tickPhase' = [tickPhase EXCEPT !.at = "idle"]
    /\ TickFrom(players, tickPhase.dt, spawnChoice, arenaSize, FALSE)
    /\ UNCHANGED <<advances, calls, loopLog, respawnLog>>

NextTurn ==
    \/ \E d \in {100} : tickPhase.at = "idle" /\ Tock(d)
    \/ \E pos \in {JoinPosition} : (tickPhase.at = "idle" \/ TickYields) /\ Step(Join(pos))
    \/ tickPhase.at = "idle" /\ Step(Start)
    \/ \E pid \in DOMAIN players, input \in {MoveDown} : Handler(SetInput(pid, input))
    \/ Handler(PlayerShoot(Shooter))
    \/ \E pid \in DOMAIN players, pos \in {East} : Handler(RespawnPlayer(pid, pos))
    \/ TickBegin
    \/ TickMove
    \/ \E choice \in {[kind |-> "none", type |-> "none"]} : TickRest(choice)

SpecTurn == Init /\ [][NextTurn]_vars
HashInit ==
    /\ cellSize \in CellSizes
    /\ cells = EmptyCells
    /\ inserted = {}
    /\ lastQuery = NoQuery
    /\ GameInit

\* the entities are inserted in the order of their ids, each once
HashInsert(id, x, z) ==
    /\ ~lastQuery.done
    /\ id = EntityIds[Cardinality(inserted) + 1]
    /\ LET entity == [id |-> id, x |-> x, z |-> z]
       IN  /\ cells' = InsertInto(cellSize, cells, entity)
           /\ inserted' = inserted \cup {entity}
    /\ lastQuery' = NoQuery
    /\ UNCHANGED <<cellSize, gameVars>>

HashClear ==
    /\ inserted # {}
    /\ cells' = EmptyCells
    /\ inserted' = {}
    /\ lastQuery' = NoQuery
    /\ UNCHANGED <<cellSize, gameVars>>

\* rebuild(entities): clear() and insert each
HashRebuild(entities) ==
    /\ ~lastQuery.done
    /\ inserted # {}
    /\ cells' = RebuildFrom(cellSize, EmptyCells, entities)
    /\ inserted' = {entities[i] : i \in 1..Len(entities)}
    /\ lastQuery' = NoQuery
    /\ UNCHANGED <<cellSize, gameVars>>

HashQuery(x, z, radius) ==
    /\ ~lastQuery.done
    /\ inserted # {}
    /\ lastQuery' = [x |-> x, z |-> z, radius |-> radius,
                     results |-> Query(cellSize, cells, x, z, radius),
                     done |-> TRUE]
    /\ UNCHANGED <<cellSize, cells, inserted, gameVars>>

HashNext ==
    \/ \E i \in 1..Len(EntityIds), x \in Coords, z \in ZCoords :
          /\ Cardinality(inserted) < Len(EntityIds)
          /\ HashInsert(EntityIds[i], x, z)
    \/ HashClear
    \/ \E x \in Coords, z \in ZCoords :
          HashRebuild(<<[id |-> "a", x |-> x, z |-> z], [id |-> "b", x |-> 0 - x, z |-> z]>>)
    \/ \E x \in Coords, z \in ZCoords, radius \in 0..MaxRadius : HashQuery(x, z, radius)

SpecHash == HashInit /\ [][HashNext]_vars

(***************************************************************************)
(* C1: query(x, z, r) returns exactly the inserted entities whose squared  *)
(* distance to (x, z) is at most r * r, each exactly once: the same set as *)
(* a brute-force scan over all inserted entities.                          *)
(***************************************************************************)
BruteForce(x, z, radius) ==
    {e \in inserted : (e.x - x) * (e.x - x) + (e.z - z) * (e.z - z) <= radius * radius}

QueryMatchesBruteForce ==
    lastQuery.done =>
        LET res == lastQuery.results
        IN  /\ {res[i] : i \in 1..Len(res)} =
                   BruteForce(lastQuery.x, lastQuery.z, lastQuery.radius)
            /\ \A i, j \in 1..Len(res) : i # j => res[i] # res[j]

\* a query around a negative point that finds entities in two different cells,
\* one of them exactly on a cell boundary at a negative coordinate
QueryAcrossCellsWitness ==
    /\ lastQuery.done
    /\ cellSize = 2
    /\ lastQuery.x < 0
    /\ Len(lastQuery.results) = 2
    /\ \E e \in inserted : e.x = 0 - 2 /\ e.x - lastQuery.x < 0
    /\ Cardinality({GetKey(cellSize, e.x, e.z) : e \in inserted}) = 2
    /\ lastQuery.radius >= 1


(***************************************************************************)
(* The hits of the last tick                                               *)
(***************************************************************************)
PlayerHits == {last.log[i] : i \in {j \in 1..Len(last.log) : last.log[j].kind = "player"}}

BlockHits == {last.log[i] : i \in {j \in 1..Len(last.log) : last.log[j].kind = "block"}}

(***************************************************************************)
(* C2: in every reachable state every player's hp is at least 0 and at     *)
(* most maxHp.  The code subtracts the damage without a clamp.             *)
(***************************************************************************)
HpWithinBounds ==
    \A id \in DOMAIN players : 0 <= players[id].hp /\ players[id].hp <= PlayerMaxHp

(***************************************************************************)
(* C3: at the end of every tick no bullet is older than the bullet         *)
(* lifetime and no bullet lies outside the half of the arena size the      *)
(* tick ends with.  The code tests the bounds before the arena is resized. *)
(***************************************************************************)
BulletsFreshAndInside ==
    [][ticks' # ticks =>
          \A i \in 1..Len(bullets') :
              /\ now' - bullets'[i].createdAt <= BulletLifetime
              /\ Abs(bullets'[i].x) <= arenaSize' \div 2
              /\ Abs(bullets'[i].z) <= arenaSize' \div 2]_vars

(***************************************************************************)
(* C4: between two respawns (or between join and the first respawn) a      *)
(* player's death is emitted at most once and the deaths counter is        *)
(* incremented at most once.                                               *)
(***************************************************************************)
DeathFiresOncePerLife ==
    \A id \in PlayerIds : deathsInLife[id].events <= 1 /\ deathsInLife[id].counted <= 1

\* a player died of one bullet of a tick while a later bullet of the same
\* tick overlapped the dead player
DiedOnceUnderSeveralBullets ==
    \E e \in PlayerHits :
        /\ ~e.aliveAfter
        /\ deathsInLife[e.target].events = 1
        /\ deathsInLife[e.target].counted = 1
        /\ \E b \in last.deadSkips : b > e.bullet

(***************************************************************************)
(* C5: a hit by a bullet of a present player S that takes the hp of T to   *)
(* 0 or below makes T not alive, adds 1 to T.deaths, 1 to S.kills and 100  *)
(* to S.score, and emits onPlayerDeath(T, S).                              *)
(***************************************************************************)
IsLethalHit(e) == e.owner \in DOMAIN e.before /\ e.hpBefore - e.damage <= 0

LethalHitEffects ==
    \A e \in PlayerHits :
        IsLethalHit(e) =>
            /\ ~e.aliveAfter
            /\ e.after[e.target].deaths = e.before[e.target].deaths + 1
            /\ e.after[e.owner].kills = e.before[e.owner].kills + 1
            /\ e.after[e.owner].score = e.before[e.owner].score + 100
            /\ \E i \in 1..Len(e.emitted) :
                   /\ e.emitted[i].type = "playerDeath"
                   /\ e.emitted[i].target = e.target
                   /\ e.emitted[i].by = e.owner

LethalHitWitness == \E e \in PlayerHits : IsLethalHit(e) /\ e.hpBefore > 0

(***************************************************************************)
(* C6: a hit with damage d on a player T with hp h > d leaves T alive with *)
(* hp h - d, emits onPlayerHit(T, owner, d) and no onPlayerDeath, and      *)
(* changes no score, kills or deaths counter.                              *)
(***************************************************************************)
NonLethalHitEffects ==
    \A e \in PlayerHits :
        e.hpBefore > e.damage =>
            /\ e.hpAfter = e.hpBefore - e.damage
            /\ e.aliveAfter
            /\ e.emitted = <<[type |-> "playerHit", target |-> e.target,
                              by |-> e.owner, arg |-> e.damage]>>
            /\ e.after = e.before

NonLethalHitWitness == \E e \in PlayerHits : e.hpBefore > e.damage /\ e.damage > 0

(***************************************************************************)
(* C7: two successful shots of a player are at least 200 ms apart: a call  *)
(* less than 200 ms after the player's last successful shot returns        *)
(* nothing, creates no bullet and leaves lastShotTime alone; a call of an  *)
(* alive player 200 ms or more after it succeeds.                          *)
(***************************************************************************)
FireRateLimit ==
    shootLog.prev # None =>
        /\ shootLog.created # <<>> => shootLog.at - shootLog.prev >= 200
        /\ shootLog.at - shootLog.prev < 200 =>
               /\ shootLog.created = <<>>
               /\ shootLog.added = 0
               /\ shootLog.lastAfter = shootLog.lastBefore
        /\ shootLog.alive /\ shootLog.at - shootLog.prev >= 200 => shootLog.created # <<>>

\* a shot exactly 200 ms after the last one went through
ShotAfterExactlyTheInterval ==
    /\ shootLog.prev # None
    /\ shootLog.at - shootLog.prev = 200
    /\ shootLog.created # <<>>

(***************************************************************************)
(* C8: with a triple-shot power-up collected at t, a successful shot       *)
(* before t + 10000 creates 3 bullets of the player, one at t + 10000 or   *)
(* later creates 1 bullet and leaves the triple-shot flag cleared.         *)
(***************************************************************************)
TripleShotWindow ==
    shootLog.created # <<>> /\ shootLog.since # None =>
        IF shootLog.at < shootLog.since + 10000
        THEN /\ Len(shootLog.created) = 3
             /\ \A i \in 1..3 : shootLog.created[i].ownerId = shootLog.pid
        ELSE /\ Len(shootLog.created) = 1
             /\ ~shootLog.flagAfter

\* a shot exactly at the end of the window
ShotAtEndOfWindow ==
    /\ shootLog.created # <<>>
    /\ shootLog.since # None
    /\ shootLog.at = shootLog.since + 10000

(***************************************************************************)
(* C9: no hit of a tick is a hit of a bullet on its own owner.             *)
(***************************************************************************)
NoHitOnOwnOwner == \A e \in PlayerHits : e.target # e.owner

\* a bullet overlapped its owner, who had respawned onto its path, and flew on
BulletPassedOwnOwner == \E b \in last.ownSkips : b \in last.afterBulletPlayer

(***************************************************************************)
(* C10: a bullet reduces the hp of at most one entity in its lifetime, and *)
(* a bullet that hit is gone when the sub-phase in which it hit is over.   *)
(***************************************************************************)
BulletHitsOnce ==
    /\ \A b \in DOMAIN bulletHits : bulletHits[b] <= 1
    /\ \A e \in PlayerHits : e.bullet \notin last.afterBulletPlayer
    /\ \A e \in BlockHits : e.bullet \notin last.afterBulletBlock

BulletGoneAfterHit ==
    \E e \in PlayerHits :
        /\ bulletHits[e.bullet] = 1
        /\ e.bullet \notin last.afterBulletPlayer
        /\ e.bullet \notin Ids(bullets)

(***************************************************************************)
(* C11: while now < invulnerableUntil no bullet changes the player's hp,   *)
(* alive flag or death count and no bullet is removed for hitting them;    *)
(* the player still moves per input and still collects the power-ups they  *)
(* overlap.                                                                *)
(***************************************************************************)
\* the players alive and invulnerable when the last tick began
Shielded == {id \in DOMAIN last.start : last.start[id].isAlive}

\* the bullets the last tick applied to some player
Hitters == {e.bullet : e \in PlayerHits}

Vitals(p) == [hp |-> p.hp, isAlive |-> p.isAlive, deaths |-> p.deaths]

Place(p) == [x |-> p.x, z |-> p.z]

\* where the input of the player takes them in dtMs milliseconds, within the walls
Driven(p, dtMs) ==
    LET far == (PlayerSpeed * dtMs) \div 1000
        wall == arenaSize \div 2 - ArenaMargin
        Within(v) == IF v > wall THEN wall ELSE IF v < 0 - wall THEN 0 - wall ELSE v
    IN  [x |-> Within(p.x + (IF p.input.right THEN far ELSE 0)
                          - (IF p.input.left THEN far ELSE 0)),
         z |-> Within(p.z + (IF p.input.down THEN far ELSE 0)
                          - (IF p.input.up THEN far ELSE 0))]

\* C11: an invulnerable player is hit by no bullet, keeps hp, alive flag and
\* deaths through the bullet phase, leaves the overlapping bullets in flight,
\* moves as the input says and collects the power-up they alone overlap
InvulnerableUntouched ==
    /\ \A e \in PlayerHits : ~e.invulnerable
    /\ last.invSkips \ Hitters \subseteq last.afterBulletPlayer
    /\ \A id \in Shielded :
          /\ id \in DOMAIN last.mid
          /\ Vitals(last.mid[id]) = Vitals(last.start[id])
          /\ Place(last.mid[id]) = Driven(last.start[id], last.dt)
          /\ last.mid[id].turretAngle = last.start[id].input.angle
          /\ \A i \in 1..Len(last.pickups) :
                last.pickups[i].overlappers = {id} => last.pickups[i].by = id

\* an invulnerable player drove away from where the tick found them, under a
\* bullet that stayed in flight, and collected a power-up
ShieldedDroveUnderBulletAndCollected ==
    \E id \in Shielded :
        /\ last.invSkips \cap last.afterBulletPlayer # {}
        /\ Place(last.mid[id]) # Place(last.start[id])
        /\ \E i \in 1..Len(last.pickups) : last.pickups[i].by = id

(***************************************************************************)
(* C12: from death until respawn no tick changes the player's position,    *)
(* facing angles or hp; they collect no power-up, consume no bullet, get   *)
(* no block pushback; every shoot call of theirs returns empty and creates *)
(* no bullet.                                                              *)
(***************************************************************************)
\* the players dead when the last tick began, and those dead after its bullet phase
DeadAtStart == {id \in DOMAIN last.start : ~last.start[id].isAlive}

DeadAtMid == {id \in DOMAIN last.mid : ~last.mid[id].isAlive}

Frame(p) ==
    [x |-> p.x, z |-> p.z, turretAngle |-> p.turretAngle, bodyAngle |-> p.bodyAngle,
     hp |-> p.hp, hasTripleShot |-> p.hasTripleShot, hasSpeedBoost |-> p.hasSpeedBoost]

\* C12: a tick leaves a dead player's position, angles, hp and power-up flags
\* alone, applies no bullet and no power-up to them and removes no bullet for
\* overlapping them; a dead player's shoot call returns nothing and adds nothing
DeadPlayerFrozen ==
    /\ \A id \in DeadAtStart : Frame(last.end[id]) = Frame(last.start[id])
    /\ \A id \in DeadAtMid : Frame(last.end[id]) = Frame(last.mid[id])
    /\ \A e \in PlayerHits : e.target \notin DeadAtStart
    /\ last.deadSkips \ Hitters \subseteq last.afterBulletPlayer
    /\ \A i \in 1..Len(last.pickups) :
          /\ last.pickups[i].by \notin DeadAtMid
          /\ last.pickups[i].changed \cap DeadAtMid = {}
    /\ (shootLog.pid # None /\ ~shootLog.alive)
          => shootLog.created = <<>> /\ shootLog.added = 0

\* a tick found a player dead, with an input that drives, under a block or a
\* power-up, and the dead player has asked to shoot
DeadPlayerDrivenAndShooting ==
    \E id \in DeadAtStart :
        /\ last.start[id].input.down
        /\ \/ \E i \in 1..Len(blocks) : GetPlayerBlockPushback(last.end[id], blocks[i]) # [x |-> 0, z |-> 0]
           \/ \E i \in 1..Len(powerUps) : PlayerHitsPowerUp(last.end[id], powerUps[i])
        /\ shootLog.pid = id
        /\ ~shootLog.alive

(***************************************************************************)
(* C13: after any sequence of start() and stop() calls at most one tick    *)
(* schedule is active, and one is active exactly when the loop is running; *)
(* start() while running and stop() while stopped leave the running flag,  *)
(* the schedule and lastTick unchanged.                                    *)
(***************************************************************************)
\* C13: at most one schedule, active exactly when running; a start() that
\* found the loop running and a stop() that found it stopped changed nothing
OneScheduleWhileRunning ==
    /\ activeTimers <= 1
    /\ (activeTimers = 1) <=> isRunning
    /\ intervalId <=> isRunning
    /\ (loopLog.op = "start" /\ loopLog.wasRunning) => ~loopLog.changed
    /\ (loopLog.op = "stop" /\ ~loopLog.wasRunning) => ~loopLog.changed

\* start() was called on a loop that was running and had ticked since it started
StartedWhileRunning ==
    /\ loopLog.op = "start"
    /\ loopLog.wasRunning
    /\ ticks > 0

IsOrphanLethalHit(e) == e.owner \notin DOMAIN e.before /\ e.hpBefore - e.damage <= 0

\* C15: playerShoot of an absent id returns no bullet and respawnPlayer of an
\* absent id returns no player, both leaving the world as it was; the lethal
\* hit of an orphan bullet kills the target, counts the death, emits the
\* death event and changes no other score, kills or deaths
AbsentIdsAreNoOps ==
    /\ (shootLog.pid # None /\ ~shootLog.present)
          => shootLog.created = <<>> /\ shootLog.added = 0 /\ ~shootLog.changed
    /\ (respawnLog.pid # None /\ respawnLog.pid \notin DOMAIN players)
          => respawnLog.returned = None /\ ~respawnLog.changed
    /\ \A e \in PlayerHits :
          IsOrphanLethalHit(e) =>
              /\ ~e.aliveAfter
              /\ e.after = [e.before EXCEPT ![e.target].deaths = @ + 1]
              /\ \E i \in 1..Len(e.emitted) :
                     /\ e.emitted[i].type = "playerDeath"
                     /\ e.emitted[i].target = e.target
                     /\ e.emitted[i].by = e.owner

\* a bullet whose owner had left killed a player, and the absent owner asked to shoot
OrphanBulletKilled ==
    /\ \E e \in PlayerHits : IsOrphanLethalHit(e) /\ e.hpBefore > 0
    /\ shootLog.pid # None
    /\ ~shootLog.present

(***************************************************************************)
(* C16: in every tick the spatial index is rebuilt from the current entity *)
(* positions after the motion steps and before the first collision check,  *)
(* and the collision phases take their candidates from queries on it.      *)
(* GameLoop never touches the SpatialHash: no rebuild, no query.           *)
(***************************************************************************)
\* the collision phases of the tick about to run meet entities of every kind
AllKindsPresent ==
    /\ DOMAIN players # {}
    /\ UpdateBullets(bullets, now - lastTick, now, arenaSize) # <<>>
    /\ blocks # <<>>
    /\ UpdatePowerUps(powerUps, now) # <<>>

\* C16: whichever kind of entity the index is rebuilt from, a tick whose
\* collision phases meet entities of every kind leaves the index filled
TickRebuildsIndex ==
    [][(ticks' # ticks /\ AllKindsPresent) => cells' # EmptyCells]_vars

(***************************************************************************)
(* C17: each resolved bullet-vs-player hit emits exactly one event: a      *)
(* death event when the resulting hp is <= 0, otherwise a hit event; a     *)
(* lethal hit does not also emit a hit event.  The code emits onPlayerHit  *)
(* for every hit and onPlayerDeath in addition for a lethal one.           *)
(***************************************************************************)
\* C17: every hit of the last tick emitted one event, of the kind its
\* resulting hp calls for
OneEventPerPlayerHit ==
    \A e \in PlayerHits :
        /\ Len(e.emitted) = 1
        /\ e.emitted[1].type = IF e.hpAfter <= 0 THEN "playerDeath" ELSE "playerHit"

(***************************************************************************)
(* C18: for each block onBlockDestroyed is emitted at most once and the    *)
(* block's hp is not reduced further once it has reached <= 0, even when   *)
(* several bullets overlap the block within the same pass.  The pass does  *)
(* not test block.hp before it applies a hit.                              *)
(***************************************************************************)
\* the blockDestroyed events the last tick emitted for the block
DestroyedEvents(id) ==
    {i \in 1..Len(last.events) :
        last.events[i].type = "blockDestroyed" /\ last.events[i].target = id}

\* C18: no block was announced destroyed twice, and no hit was applied to a
\* block whose hp was already <= 0
BlockDestroyedOnce ==
    /\ \A e \in BlockHits : Cardinality(DestroyedEvents(e.target)) <= 1
    /\ \A e \in BlockHits : e.hpBefore > 0

(***************************************************************************)
(* C19: each power-up is collected at most once: in the player-vs-powerup  *)
(* phase an overlapped power-up applies its effect to exactly one alive    *)
(* player, emits exactly one onPowerUpCollected(playerId, type) event for  *)
(* that player, and is absent from the world when the phase ends.          *)
(***************************************************************************)
Pickups == {last.pickups[i] : i \in 1..Len(last.pickups)}

\* what the power-up of entry e must have made of its collector
EffectOf(e) ==
    CASE e.type = "tripleShot" ->
             e.effect.hasTripleShot /\ e.effect.tripleShotUntil = e.at + 10000
      [] e.type = "speed" ->
             e.effect.hasSpeedBoost /\ e.effect.speedBoostUntil = e.at + 8000
      [] e.type = "heal" ->
             e.effect.hp = (IF e.hpBefore + 50 > PlayerMaxHp THEN PlayerMaxHp
                                                             ELSE e.hpBefore + 50)

\* C19: an overlapped power-up goes to one of the alive players that overlap
\* it, changes nobody else, emits one event naming that player and the type,
\* is not in the world after the phase, and has been collected once in all
PowerUpCollectedOnce ==
    /\ \A e \in Pickups :
          /\ e.overlappers # {} <=> e.by # None
          /\ e.by # None =>
                /\ e.by \in e.overlappers
                /\ e.changed \subseteq {e.by}
                /\ EffectOf(e)
                /\ e.emitted = <<[type |-> "powerUpCollected", target |-> e.by,
                                  by |-> None, arg |-> e.type]>>
                /\ e.powerUp \notin last.afterPowerUps
          /\ e.by = None => e.changed = {} /\ e.emitted = <<>>
    /\ \A id \in DOMAIN last.collected : last.collected[id] <= 1

\* a power-up that two alive players overlapped went to one of them
CollectedBetweenTwo ==
    \E e \in Pickups : Cardinality(e.overlappers) = 2 /\ e.by # None /\ e.changed = {e.by}

(***************************************************************************)
(* C20: after stop() no tick begins until start() is called again; a tick  *)
(* that is executing when stop() is called, from the callback of one of    *)
(* its events, still runs all its remaining steps.                         *)
(***************************************************************************)
\* C20: every tick began while the loop was running, and a tick whose
\* callback stopped the loop went on through updateSpawns and updateArenaSize
NoTickAfterStop ==
    /\ ticks > 0 => last.wasRunning
    /\ ~isRunning => activeTimers = 0
    /\ last.stopped => last.completed

\* a callback stopped the loop in a tick that ended by resizing the arena
StoppedTickResizedArena ==
    /\ last.stopped
    /\ ~isRunning
    /\ \E i \in 1..Len(last.events) : last.events[i].type = "arenaResize"

(***************************************************************************)
(* C21: after respawnPlayer(p) for a player p present in the world, p has  *)
(* full hp, is alive, has score 0 and neither boost flag, is invulnerable  *)
(* until the call time plus the configured duration and stands within the  *)
(* current arena; p's kills, deaths and other fields, every other player,  *)
(* and the bullets, blocks and power-ups are as before the call.           *)
(***************************************************************************)
RespawnFrame ==
    [][(respawnLog'.call # respawnLog.call /\ respawnLog'.returned # None) =>
          /\ players'[respawnLog'.pid] =
                 [players[respawnLog'.pid] EXCEPT
                     !.x = players'[respawnLog'.pid].x,
                     !.z = players'[respawnLog'.pid].z,
                     !.hp = PlayerMaxHp,
                     !.isAlive = TRUE,
                     !.score = 0,
                     !.hasTripleShot = FALSE,
                     !.hasSpeedBoost = FALSE,
                     !.invulnerableUntil = now + RespawnInvulnerability]
          /\ players'[respawnLog'.pid].kills = players[respawnLog'.pid].kills
          /\ players'[respawnLog'.pid].deaths = players[respawnLog'.pid].deaths
          /\ 2 * players'[respawnLog'.pid].x <= arenaSize'
          /\ 2 * players'[respawnLog'.pid].x >= 0 - arenaSize'
          /\ 2 * players'[respawnLog'.pid].z <= arenaSize'
          /\ 2 * players'[respawnLog'.pid].z >= 0 - arenaSize'
          /\ DOMAIN players' = DOMAIN players
          /\ \A id \in DOMAIN players \ {respawnLog'.pid} : players'[id] = players[id]
          /\ UNCHANGED <<now, arenaSize, joined, bullets, nextBulletId, blocks, powerUps,
                         nextEntityId>>]_vars

\* the first player, who had killed and held a running speed boost, has just
\* respawned east, next to a block
RespawnedAfterKillWithBoost ==
    /\ respawnLog.returned = Shooter
    /\ respawnLog.call = calls
    /\ players[Shooter].kills > 0
    /\ players[Shooter].score = 0
    /\ players[Shooter].x = East.x
    /\ players[Shooter].invulnerableUntil = now + RespawnInvulnerability
    /\ ~players[Shooter].hasSpeedBoost
    /\ players[Shooter].speedBoostUntil > now
    /\ blocks # <<>>

(***************************************************************************)
(* C22: at the end of every tick no power-up older than 30000 ms remains   *)
(* in the world, and a power-up of age at most 30000 ms that a tick        *)
(* removes was collected in that tick.                                     *)
(***************************************************************************)
PowerUpsExpire ==
    [][ticks' # ticks =>
          /\ \A i \in DOMAIN powerUps' : now' - powerUps'[i].createdAt <= PowerUpLifetime
          /\ \A i \in DOMAIN powerUps :
                 (/\ now' - powerUps[i].createdAt <= PowerUpLifetime
                  /\ powerUps[i].id \notin Ids(powerUps'))
                 => \E j \in DOMAIN last'.pickups :
                        /\ last'.pickups[j].powerUp = powerUps[i].id
                        /\ last'.pickups[j].by # None]_vars

\* a power-up that nobody collected was still there after the tick at which it
\* was exactly 30000 ms old and is gone after the next tick, 100 ms later
ExpiredUncollected ==
    /\ ticks > 0
    /\ last.at = now
    /\ last.dt = 100
    /\ last.pickups = <<>>
    /\ last.collected = NoTick.collected
    /\ powerUps = <<>>
    /\ nextEntityId = 3
    /\ Len(blocks) = 1

(***************************************************************************)
(* C23: while ticks keep firing every bullet is eventually removed from    *)
(* the world: after a tick no bullet is older than the bullet lifetime,    *)
(* and every bullet that exists ceases to exist.                           *)
(***************************************************************************)
HasBullet(id) == \E i \in DOMAIN bullets : bullets[i].id = id

BulletsExpire ==
    /\ [](ticks > 0 =>
            \A i \in DOMAIN bullets : last.at - bullets[i].createdAt <= BulletLifetime)
    /\ \A id \in 1..MaxBulletIds : HasBullet(id) ~> ~HasBullet(id)

\* a bullet shot east across the arena 400 ms ago, which is still 35 short of
\* the wall, is gone after a tick
ExpiredInsideArena ==
    /\ ticks > 0
    /\ last.at = now
    /\ shootLog.added = 1
    /\ shootLog.created[1].vx = BulletSpeed
    /\ now - shootLog.at = 400
    /\ 2 * (shootLog.created[1].x + (BulletSpeed * 400) \div 1000) < arenaSize
    /\ bullets = <<>>

(***************************************************************************)
(* C24: the deltaTime of a tick is the time since the previous tick, or    *)
(* since start() for the first tick after a start: the deltaTimes of the   *)
(* ticks since the latest start() sum to the time between that start()     *)
(* and the latest tick, however late a tick comes.                         *)
(***************************************************************************)
DeltaTimesSumToElapsed ==
    loopLog.startedAt # None =>
        /\ loopLog.elapsed =
               IF last.at # None /\ last.at > loopLog.startedAt
                  THEN last.at - loopLog.startedAt
                  ELSE 0
        /\ loopLog.elapsed > 0 => (last.dt > 0 /\ last.dt <= loopLog.elapsed)
        /\ isRunning => lastTick = loopLog.startedAt + loopLog.elapsed

\* a loop that had ticked was stopped and started again 200 ms or more after
\* the construction, and has just gone through its first tick since
TickedAfterRestart ==
    /\ loopLog.startedAt # None
    /\ loopLog.startedAt >= StartTime + 200
    /\ ticks >= 2
    /\ last.at = now
    /\ last.dt > 0
    /\ loopLog.elapsed = last.dt

(***************************************************************************)
(* C25: at the end of every complete tick, after the block pushback and    *)
(* the arena resize of that tick, every alive player's x and z lie within  *)
(* [-arenaSize/2 + 30, arenaSize/2 - 30] of the current arena.             *)
(***************************************************************************)
AlivePlayersInsideClamp ==
    (ticks > 0 /\ last.completed) =>
        \A id \in DOMAIN players :
            players[id].isAlive =>
                /\ players[id].x <= arenaSize \div 2 - ArenaMargin
                /\ players[id].x >= 0 - (arenaSize \div 2 - ArenaMargin)
                /\ players[id].z <= arenaSize \div 2 - ArenaMargin
                /\ players[id].z >= 0 - (arenaSize \div 2 - ArenaMargin)

(***************************************************************************)
(* C26: while no player has been removed from the world, the kills of all  *)
(* players sum to at most the deaths of all players, and every player's    *)
(* score is 100 times the kills they were credited with since their last   *)
(* respawn, or since they joined.                                          *)
(***************************************************************************)
RECURSIVE SumOver(_, _)
SumOver(ids, f) ==
    IF ids = {} THEN 0
    ELSE LET id == CHOOSE i \in ids : TRUE
         IN  f[id] + SumOver(ids \ {id}, f)

KillsWithinDeathsAndScoreFromKills ==
    DOMAIN players = 1..joined =>
        /\ SumOver(DOMAIN players, [id \in DOMAIN players |-> players[id].kills])
              <= SumOver(DOMAIN players, [id \in DOMAIN players |-> players[id].deaths])
        /\ \A id \in DOMAIN players :
               /\ players[id].score >= 0
               /\ players[id].score % 100 = 0
               /\ players[id].score = KillScore * deathsInLife[id].credited

\* the first player killed the second one and respawned since: one kill on
\* the counter, none in the score
RespawnedAfterKill ==
    /\ joined = 2
    /\ players[Shooter].kills = 1
    /\ players[Victim].deaths = 1
    /\ players[Shooter].score = 0
    /\ deathsInLife[Shooter].credited = 0

(***************************************************************************)
(* C27: in the movement phase of a tick an alive player moves at 1.5 times *)
(* the base speed exactly when their speed-boost flag is set and           *)
(* now < speedBoostUntil, and otherwise moves at base speed and has the    *)
(* flag cleared by that tick; the flag of a dead player is left as it was. *)
(***************************************************************************)
\* where the movement phase takes a player who drives south from z at the
\* given speed for dtMs milliseconds
DrivenSouth(z, speed, dtMs, arena) ==
    Min(arena \div 2 - ArenaMargin, z + (speed * dtMs) \div 1000)

SpeedBoostWindow ==
    [][ticks' # ticks =>
          \A id \in DOMAIN players :
              IF players[id].isAlive
                 THEN IF players[id].hasSpeedBoost /\ now < players[id].speedBoostUntil
                         THEN /\ players'[id].z =
                                    DrivenSouth(players[id].z, (3 * PlayerSpeed) \div 2,
                                                last'.dt, arenaSize)
                              /\ players'[id].hasSpeedBoost
                         ELSE /\ players'[id].z =
                                    DrivenSouth(players[id].z, PlayerSpeed, last'.dt,
                                                arenaSize)
                              /\ players'[id].hasSpeedBoost
                                    = Collected(last'.events, id, "speed")
                 ELSE /\ players'[id].hasSpeedBoost = players[id].hasSpeedBoost
                      /\ players'[id].z = players[id].z]_vars

\* the player collected a speed boost and, 8000 ms later to the millisecond,
\* has just gone through the tick that cleared the flag
BoostClearedAtEndOfWindow ==
    /\ ticks > 0
    /\ last.at = now
    /\ players[Shooter].isAlive
    /\ players[Shooter].speedBoostUntil = now
    /\ now >= StartTime + SpeedBoostDuration + 100
    /\ ~players[Shooter].hasSpeedBoost
=============================================================================
